---- MODULE Spec2Model ----
(***************************************************************************)
(* StreakSocial: the check-in window timer, the streak update on check-in  *)
(* completion, the milestone celebration and the home-card milestone       *)
(* progress, modelled from src/unnamed/part_002 (the current App module)   *)
(* and, for the check-in completion handler, from src/app/App.tsx.         *)
(*                                                                         *)
(* Time is the number of milliseconds since local midnight of day 0; the   *)
(* local time zone has a fixed offset (no daylight-saving change).  One    *)
(* action is one event handler or callback together with the re-render     *)
(* that follows it, so a closure created by a render holds the state of    *)
(* the moment the handler that uses it was started.                        *)
(***************************************************************************)
EXTENDS Integers, Sequences, FiniteSets, TLC

VARIABLES
    now,              \* wall clock, ms since local midnight of day 0
    goals,            \* App: goals state (sequence of Goal records)
    myCheckIns,       \* App: myCheckIns state, newest first
    screen,           \* App: screen state
    tab,              \* App: tab state
    selectedGoal,     \* App: selectedGoal state (a Goal snapshot or NoGoal)
    showCelebration,  \* App: showCelebration state
    celebrationData,  \* App: celebrationData state (record or NoCelebration)
    isCheckInWindow,  \* HomeScreen: isCheckInWindow state
    timeLeft,         \* HomeScreen: timeLeft state ([hours, mins] or NoTimeLeft)
    interval,         \* HomeScreen: time the interval timer fires next, or NoTime
    checkIn,          \* CheckInScreen instance: [mounted, stage, photo]
    photoCalls,       \* number of pending takePictureAsync calls of the instance
    fetches,          \* pending verify-checkin requests (closures)
    timers,           \* pending setTimeout(onComplete, 1500) callbacks, FIFO
    create,           \* CreateGoalScreen instance: the wizard state
    classifyFetches,  \* pending classify-goal requests of the instance
    feed,             \* FeedScreen instance: its local state
    feedFetches,      \* pending checkins/feed requests of the instance
    coach,            \* AICoachScreen instance: its local state
    coachFetches,     \* pending chat requests of the instance
    isLoading,        \* App: isLoading state
    session,          \* App: session state (a session or NoSession)
    sessionLookup     \* the promise of getSession(): pending or settled

vars == <<now, goals, myCheckIns, screen, tab, selectedGoal, showCelebration,
          celebrationData, isCheckInWindow, timeLeft, interval, checkIn,
          photoCalls, fetches, timers, create, classifyFetches,
          feed, feedFetches, coach, coachFetches, isLoading, session,
          sessionLookup>>

appVars == <<goals, myCheckIns, screen, tab, selectedGoal, showCelebration,
             celebrationData>>
homeVars == <<isCheckInWindow, timeLeft, interval>>
checkInVars == <<checkIn, photoCalls, fetches, timers>>
createVars == <<create, classifyFetches>>
feedVars == <<feed, feedFetches>>
coachVars == <<coach, coachFetches>>
authVars == <<isLoading, session, sessionLookup>>

----------------------------------------------------------------------------
(* Bounds of the model *)

MaxTicks == 3        \* clock steps taken by Tick
TickHours == 20      \* hours per clock step
MaxInFlight == 2     \* pending camera calls, requests and timers together
MaxCheckIns == 2     \* CheckIn records in myCheckIns
MaxStreak == 103     \* largest initial streak of the streak specification
MaxTimerDay == 1     \* last day of the clock values of the timer specification
MaxLateCheckIns == 3 \* CheckIn records in the specification of late callbacks
MaxGoals == 4        \* goals in the goals list
MaxClassify == 2     \* pending classify-goal requests
MaxFeedFetches == 2  \* pending checkins/feed requests
MaxMessages == 5     \* messages of a coach conversation
MaxIntervalSteps == 9 \* clock steps to either side of a window boundary
StepSeconds == 20    \* seconds per clock step of the interval specification

----------------------------------------------------------------------------
(* Time *)

MsPerMin == 60000
MsPerHour == 3600000
MsPerDay == 86400000

WindowStartHour == 8
WindowEndHour == 22

\* Date.prototype.getHours() in local time
GetHours(t) == (t \div MsPerHour) % 24

\* local midnight of the day of t
StartOfDay(t) == (t \div MsPerDay) * MsPerDay

\* calendar day number of t
DayOf(t) == t \div MsPerDay

\* d = new Date(t); d.setHours(h, 0, 0, 0); d.getTime()
SetHours(t, h) == StartOfDay(t) + h * MsPerHour

\* d.setDate(d.getDate() + 1): same time of day, next day
NextDate(t) == t + MsPerDay

NoTime == -1
NoTimeLeft == [hours |-> -1, mins |-> -1]
NoPhoto == "null"
PhotoUri == "file://photo.jpg"

----------------------------------------------------------------------------
(* HomeScreen.updateTimer *)

\* updateTimer with the end of the window included: hour <= 22
WindowOpenInclusive(t) ==
    GetHours(t) >= WindowStartHour /\ GetHours(t) <= WindowEndHour

\* the branch condition of updateTimer
WindowOpen(t) == GetHours(t) >= WindowStartHour /\ GetHours(t) < WindowEndHour

\* updateTimer without the step to the next day after 22:00
TimerDiffSameDay(t) ==
    IF WindowOpen(t)
    THEN SetHours(t, WindowEndHour) - t
    ELSE SetHours(t, WindowStartHour) - t

\* the local diff of updateTimer, in ms
TimerDiff(t) ==
    IF WindowOpen(t)
    THEN SetHours(t, WindowEndHour) - t
    ELSE LET nextWindow == IF GetHours(t) >= WindowEndHour THEN NextDate(t) ELSE t
         IN  SetHours(nextWindow, WindowStartHour) - t

\* `${hours}h ${mins}m` as the pair it is formatted from
FormatTimeLeft(diff) ==
    [hours |-> diff \div MsPerHour,
     mins  |-> (diff % MsPerHour) \div MsPerMin]

\* the state written by one run of updateTimer at time t
UpdateTimerAt(t) ==
    /\ isCheckInWindow' = WindowOpen(t)
    /\ timeLeft' = FormatTimeLeft(TimerDiff(t))

\* the period of setInterval(updateTimer, 60000)
IntervalMs == 60000

\* HomeScreen is rendered only by the tab view, under tab 'home'
HomeMounted(s, t) == s = "tabs" /\ t = "home"

\* HomeScreen local state across a change of screen and tab: the mount effect
\* runs updateTimer once and starts the interval timer, its cleanup clears
\* the timer; an unmounted HomeScreen has no state
HomeAfter(s, t) ==
    IF HomeMounted(s, t)
    THEN IF HomeMounted(screen, tab)
         THEN UNCHANGED homeVars
         ELSE /\ UpdateTimerAt(now)
              /\ interval' = now + IntervalMs
    ELSE /\ isCheckInWindow' = FALSE
         /\ timeLeft' = NoTimeLeft
         /\ interval' = NoTime

----------------------------------------------------------------------------
(* HomeScreen goal card: milestone progress *)

\* the progress list with the tier 50 of the celebration table in it
ProgressMilestonesWithFifty == <<7, 21, 30, 50, 100>>

\* const milestones = [7, 21, 30, 100]
ProgressMilestones == <<7, 21, 30, 100>>

\* milestones.find(m => streak < m) || 100
NextMilestone(streak) ==
    LET later == {i \in DOMAIN ProgressMilestones : streak < ProgressMilestones[i]}
    IN  IF later = {} THEN 100
        ELSE ProgressMilestones[CHOOSE i \in later : \A j \in later : i <= j]

\* milestones.filter(m => streak >= m).pop() || 0
PrevMilestone(streak) ==
    LET reached == {i \in DOMAIN ProgressMilestones : streak >= ProgressMilestones[i]}
    IN  IF reached = {} THEN 0
        ELSE ProgressMilestones[CHOOSE i \in reached : \A j \in reached : i >= j]

\* Math.round(x) for x = num / den with num >= 0 and den > 0: floor(x + 0.5)
RoundDiv(num, den) == (2 * num + den) \div (2 * den)

\* a JavaScript number that is either NaN or an integer
NaN == [nan |-> TRUE, value |-> 0]
Num(n) == [nan |-> FALSE, value |-> n]

\* Math.min(100, Math.round((progressInCurrentTier / tierSize) * 100)):
\* 0 / 0 is NaN and stays NaN through Math.round and Math.min; a positive
\* number over 0 is Infinity, which Math.min cuts to 100
MilestoneProgress(streak) ==
    LET progressInCurrentTier == streak - PrevMilestone(streak)
        tierSize == NextMilestone(streak) - PrevMilestone(streak)
    IN  IF tierSize = 0
        THEN IF progressInCurrentTier = 0 THEN NaN ELSE Num(100)
        ELSE LET r == RoundDiv(100 * progressInCurrentTier, tierSize)
             IN  IF r < 100 THEN Num(r) ELSE Num(100)

----------------------------------------------------------------------------
(* The feed service (checkins/feed of the backend) *)

\* an entry of the feed as the server holds it; timestamp is the time the
\* time_ago text of the item is made from
ServerEntry(id, rate, streak, timestamp, friend) ==
    [id |-> id, consistency_rate |-> rate, streak |-> streak,
     timestamp |-> timestamp, friend |-> friend]

\* the entries the server may hold
FeedPool ==
    { ServerEntry("a", 90, 5, 3, TRUE),
      ServerEntry("b", 70, 10, 1, TRUE),
      ServerEntry("c", 70, 3, 4, FALSE),
      ServerEntry("d", 70, 3, 2, TRUE) }

EntryOf(id) == CHOOSE e \in FeedPool : e.id = id

\* the entries the server holds when it answers a request
ServerStates ==
    { {},
      {EntryOf("a"), EntryOf("b"), EntryOf("c")},
      {EntryOf("a"), EntryOf("b"), EntryOf("c"), EntryOf("d")} }

\* the item of the response for an entry
ApiFeedItem(e) ==
    [id |-> e.id, consistency_rate |-> e.consistency_rate,
     streak |-> e.streak, timestamp |-> e.timestamp]

\* the ranking of the feed: consistency rate, then streak, then timestamp, each
\* descending
RanksBefore(e, f) ==
    \/ e.consistency_rate > f.consistency_rate
    \/ /\ e.consistency_rate = f.consistency_rate
       /\ \/ e.streak > f.streak
          \/ e.streak = f.streak /\ e.timestamp > f.timestamp

RECURSIVE RankFeed(_)
RankFeed(S) ==
    IF S = {} THEN <<>>
    ELSE LET top == CHOOSE e \in S : \A f \in S \ {e} : RanksBefore(e, f)
         IN  <<top>> \o RankFeed(S \ {top})

\* the response to GET checkins/feed with or without friends_only=true
ServerFeed(held, friendsOnly) ==
    RankFeed({ApiFeedItem(e) : e \in {x \in held : friendsOnly => x.friend}})

----------------------------------------------------------------------------
(* FeedScreen state *)

NoItem == "null"
NoTaps == <<>>

\* FeedScreen local state: no instance, and a newly mounted instance
NoFeedScreen ==
    [mounted |-> FALSE, activeTab |-> "friends", feedData |-> <<>>,
     isLoading |-> TRUE, likedItems |-> {}, heartVisible |-> NoItem,
     lastTap |-> NoTaps]

FreshFeedScreen == [NoFeedScreen EXCEPT !.mounted = TRUE]

\* the call of fetchFeed from a render whose activeTab is t, and the request
\* it sends
FeedRequest(t) == [tab |-> t, friendsOnly |-> t = "friends"]

\* FeedScreen is rendered only by the tab view, under tab 'feed'
FeedMounted(s, t) == s = "tabs" /\ t = "feed"

\* FeedScreen local state across a change of screen and tab: the mount effect
\* runs fetchFeed; an unmounted FeedScreen has no state, and the replies to
\* its requests set nothing
FeedAfter(s, t) ==
    IF FeedMounted(s, t)
    THEN IF FeedMounted(screen, tab)
         THEN UNCHANGED feedVars
         ELSE /\ feed' = FreshFeedScreen
              /\ feedFetches' = <<FeedRequest(FreshFeedScreen.activeTab)>>
    ELSE /\ feed' = NoFeedScreen
         /\ feedFetches' = <<>>

\* the components of the tab view across a change of screen and tab
TabViewAfter(s, t) == HomeAfter(s, t) /\ FeedAfter(s, t)

----------------------------------------------------------------------------
(* CreateGoalScreen state *)

Steps == <<"title", "frequency", "reminder", "classify", "confirm">>

\* steps.indexOf(step)
StepIndex(step) == CHOOSE i \in DOMAIN Steps : Steps[i] = step

\* the ids of FREQUENCIES and of REMINDER_TIMES
Frequencies == {"daily", "3x-week", "weekdays", "weekly"}
ReminderTimes == {"morning", "midday", "afternoon", "evening", "night"}

\* String.prototype.trim() over texts whose only white space is the blank
RECURSIVE TrimStart(_)
TrimStart(s) == IF s # "" /\ Head(s) = " " THEN TrimStart(Tail(s)) ELSE s

RECURSIVE TrimEnd(_)
TrimEnd(s) ==
    IF s # "" /\ SubSeq(s, Len(s), Len(s)) = " "
    THEN TrimEnd(SubSeq(s, 1, Len(s) - 1))
    ELSE s

Trim(s) == TrimEnd(TrimStart(s))

\* classification === null, and the default set when the request throws
NoClassification == [category |-> "", suggested_routine |-> ""]
DefaultClassification ==
    [category |-> "productivity",
     suggested_routine |-> "Start with 15 minutes daily and build from there."]

\* CreateGoalScreen local state: no instance, and a newly mounted instance
NoCreateScreen ==
    [mounted |-> FALSE, step |-> "title", title |-> "", frequency |-> "daily",
     reminderTime |-> "morning", isClassifying |-> FALSE,
     classification |-> NoClassification]

FreshCreateScreen == [NoCreateScreen EXCEPT !.mounted = TRUE]

----------------------------------------------------------------------------
(* AICoachScreen state *)

\* a message of the conversation: its role and what its content is
ChatMessage(role, content) == [role |-> role, content |-> content]

\* useState<AgenticMessage[]>([...]): the greeting of the coach
Greeting == ChatMessage("assistant", "greeting")

\* AICoachScreen local state: no instance, and a newly mounted instance
NoCoachScreen ==
    [mounted |-> FALSE, message |-> "", isLoading |-> FALSE,
     conversation |-> <<>>]

FreshCoachScreen ==
    [mounted |-> TRUE, message |-> "", isLoading |-> FALSE,
     conversation |-> <<Greeting>>]

----------------------------------------------------------------------------
(* App state *)

Goal(id, title, category, streak) ==
    [id |-> id, title |-> title, category |-> category,
     current_streak |-> streak, frequency |-> "daily", description |-> "",
     checkedToday |-> FALSE, lastCheckIn |-> NoTime]

\* useState<Goal[]>([...]) of App
InitialGoals ==
    << Goal("1", "Run 3x per week", "fitness", 12),
       Goal("2", "Read 30 minutes", "learning", 5),
       Goal("3", "Meditate daily", "wellness", 3) >>

\* selectedGoal === null, celebrationData === null
NoGoal == Goal("null", "", "", 0)
NoCelebration == [milestone |-> 0, emoji |-> "", title |-> ""]

\* index of goals.find(g => g.id === goalId) in gs, 0 when there is none
FindGoal(gs, goalId) ==
    LET hits == {i \in DOMAIN gs : gs[i].id = goalId}
    IN  IF hits = {} THEN 0 ELSE CHOOSE i \in hits : \A j \in hits : i <= j

\* the celebration table with the tiers of the progress list only (no 50)
MilestonesNoFifty ==
    (7 :> [emoji |-> "star", title |-> "Week Warrior!"]) @@
    (21 :> [emoji |-> "glowing star", title |-> "21-Day Habit!"]) @@
    (30 :> [emoji |-> "trophy", title |-> "Monthly Master!"]) @@
    (100 :> [emoji |-> "crown", title |-> "Century Legend!"])

\* the celebration table of handleCheckInComplete
Milestones ==
    (7 :> [emoji |-> "star", title |-> "Week Warrior!"]) @@
    (21 :> [emoji |-> "glowing star", title |-> "21-Day Habit!"]) @@
    (30 :> [emoji |-> "trophy", title |-> "Monthly Master!"]) @@
    (50 :> [emoji |-> "gem", title |-> "Halfway Century!"]) @@
    (100 :> [emoji |-> "crown", title |-> "Century Legend!"])

\* CheckInScreen local state: no instance, and a newly mounted instance
NoCheckInScreen == [mounted |-> FALSE, stage |-> "capture", photo |-> NoPhoto]
FreshCheckInScreen == [mounted |-> TRUE, stage |-> "capture", photo |-> NoPhoto]

InFlight == photoCalls + Len(fetches) + Len(timers)

RemoveAt(s, i) == SubSeq(s, 1, i - 1) \o SubSeq(s, i + 1, Len(s))

Range(s) == {s[k] : k \in DOMAIN s}

\* the modal of the tab view covers the whole screen while it is shown
CelebrationShown == showCelebration /\ celebrationData # NoCelebration

\* the tab view is rendered and nothing covers it
TabsUsable == screen = "tabs" /\ ~CelebrationShown

InitRest ==
    /\ myCheckIns = <<>>
    /\ screen = "tabs"
    /\ tab = "feed"
    /\ selectedGoal = NoGoal
    /\ showCelebration = FALSE
    /\ celebrationData = NoCelebration
    /\ isCheckInWindow = FALSE
    /\ timeLeft = NoTimeLeft
    /\ interval = NoTime
    /\ checkIn = NoCheckInScreen
    /\ photoCalls = 0
    /\ fetches = <<>>
    /\ timers = <<>>
    /\ create = NoCreateScreen
    /\ classifyFetches = <<>>
    /\ feed = FreshFeedScreen
    /\ feedFetches = <<FeedRequest(FreshFeedScreen.activeTab)>>
    /\ coach = NoCoachScreen
    /\ coachFetches = <<>>
    /\ isLoading = FALSE
    /\ session = "stored"
    /\ sessionLookup = "settled"

Init ==
    /\ now = 0
    /\ goals = InitialGoals
    /\ InitRest

----------------------------------------------------------------------------
(* Clock and the one-minute interval of HomeScreen *)

\* time passes; a clock step is far longer than a request or the 1500 ms
\* timer, so none of them is pending across it
Tick ==
    /\ now + TickHours * MsPerHour <= MaxTicks * TickHours * MsPerHour
    /\ InFlight = 0
    /\ now' = now + TickHours * MsPerHour
    /\ UNCHANGED <<appVars, homeVars, checkInVars, createVars, feedVars, coachVars, authVars>>

\* the interval timer that is never set again after it has fired
UpdateTimerOnce ==
    /\ HomeMounted(screen, tab)
    /\ UpdateTimerAt(now)
    /\ interval' = NoTime
    /\ UNCHANGED <<now, appVars, checkInVars,
                   createVars, feedVars, coachVars, authVars>>

\* setInterval(updateTimer, 60000) while HomeScreen is mounted: the timer
\* fires, and fires again one period later
UpdateTimer ==
    /\ HomeMounted(screen, tab)
    /\ UpdateTimerAt(now)
    /\ interval' = now + IntervalMs
    /\ UNCHANGED <<now, appVars, checkInVars,
                   createVars, feedVars, coachVars, authVars>>

----------------------------------------------------------------------------
(* App: handleCheckInComplete and the screen routing *)

\* the goals update without the checkedToday flag
MarkCheckedInNoFlag(prevGoals, goalId, newStreak) ==
    [i \in DOMAIN prevGoals |->
        IF prevGoals[i].id = goalId
        THEN [prevGoals[i] EXCEPT !.current_streak = newStreak,
                                  !.lastCheckIn = now]
        ELSE prevGoals[i]]

\* setGoals(prevGoals => prevGoals.map(...)) of part_002: the goal with the
\* given id gets the streak computed by the caller
MarkCheckedIn(prevGoals, goalId, newStreak) ==
    [i \in DOMAIN prevGoals |->
        IF prevGoals[i].id = goalId
        THEN [prevGoals[i] EXCEPT !.current_streak = newStreak,
                                  !.checkedToday = TRUE,
                                  !.lastCheckIn = now]
        ELSE prevGoals[i]]

\* the CheckIn record with the streak the goal had before the check-in
NewCheckInBefore(goal, newStreak) ==
    [id |-> now, goalId |-> goal.id, goalTitle |-> goal.title,
     photoUri |-> PhotoUri, streak |-> goal.current_streak, timestamp |-> now]

\* the CheckIn record built by handleCheckInComplete
NewCheckIn(goal, newStreak) ==
    [id |-> now, goalId |-> goal.id, goalTitle |-> goal.title,
     photoUri |-> PhotoUri, streak |-> newStreak, timestamp |-> now]

\* celebrationData for a streak that has an entry in the table
Celebration(newStreak) ==
    [milestone |-> newStreak, emoji |-> Milestones[newStreak].emoji,
     title |-> Milestones[newStreak].title]

\* handleCheckInComplete of part_002, called from a render whose goals state
\* was closureGoals
HandleCheckInComplete(goalId, closureGoals) ==
    LET g == FindGoal(closureGoals, goalId)
    IN  IF g = 0
        THEN UNCHANGED <<goals, myCheckIns, showCelebration, celebrationData>>
        ELSE LET goal == closureGoals[g]
                 newStreak == goal.current_streak + 1
             IN  /\ goals' = MarkCheckedIn(goals, goalId, newStreak)
                 /\ myCheckIns' = <<NewCheckIn(goal, newStreak)>> \o myCheckIns
                 /\ IF newStreak \in DOMAIN Milestones
                    THEN /\ celebrationData' = Celebration(newStreak)
                         /\ showCelebration' = TRUE
                    ELSE UNCHANGED <<showCelebration, celebrationData>>

\* setGoals(prevGoals => prevGoals.map(...)) of App.tsx: the goal with the
\* given id gets its own streak plus one
IncrementStreak(prevGoals, goalId) ==
    [i \in DOMAIN prevGoals |->
        IF prevGoals[i].id = goalId
        THEN [prevGoals[i] EXCEPT !.current_streak = prevGoals[i].current_streak + 1,
                                  !.checkedToday = TRUE,
                                  !.lastCheckIn = now]
        ELSE prevGoals[i]]

\* handleCheckInComplete of App.tsx, which has no celebration
HandleCheckInCompleteTsx(goalId, closureGoals) ==
    LET g == FindGoal(closureGoals, goalId)
    IN  /\ goals' = IncrementStreak(goals, goalId)
        /\ IF g = 0
           THEN UNCHANGED myCheckIns
           ELSE myCheckIns' = <<NewCheckIn(closureGoals[g],
                                           closureGoals[g].current_streak + 1)>>
                              \o myCheckIns
        /\ UNCHANGED <<showCelebration, celebrationData>>

\* the closure a CheckInScreen render hands to verifyAndSubmit and to the
\* Submit Anyway button: the state setters of its instance (live while the
\* instance is mounted), its photo state, and the onComplete prop of the App
\* render (selectedGoal.id and goals)
Closure ==
    [live |-> TRUE, photo |-> checkIn.photo,
     goalId |-> selectedGoal.id, goals |-> goals]

\* CheckInScreen unmounts: its pending camera calls can no longer change any
\* state, and the state setters of its pending requests become no-ops
Unmount ==
    /\ checkIn' = NoCheckInScreen
    /\ photoCalls' = 0
    /\ fetches' = [i \in DOMAIN fetches |-> [fetches[i] EXCEPT !.live = FALSE]]

\* CreateGoalScreen unmounts: the state setters of its pending requests
\* become no-ops
UnmountCreate ==
    /\ create' = NoCreateScreen
    /\ classifyFetches' = <<>>

\* AICoachScreen unmounts: the state setters of its pending request become
\* no-ops
UnmountCoach ==
    /\ coach' = NoCoachScreen
    /\ coachFetches' = <<>>

\* CheckInScreen is rendered for screen 'checkin' with a selected goal
CheckInMounted == screen = "checkin" /\ selectedGoal # NoGoal /\ checkIn.mounted

\* TabBar onTabPress = setTab
TabPress(t) ==
    /\ TabsUsable
    /\ tab' = t
    /\ TabViewAfter("tabs", t)
    /\ UNCHANGED <<now, goals, myCheckIns, screen, selectedGoal,
                   showCelebration, celebrationData, checkInVars,
                   createVars, coachVars, authVars>>

\* HomeScreen onGoalPress: setSelectedGoal(goal); setScreen('goal')
GoalPress(i) ==
    /\ TabsUsable /\ tab = "home"
    /\ selectedGoal' = goals[i]
    /\ screen' = "goal"
    /\ TabViewAfter("goal", tab)
    /\ UNCHANGED <<now, goals, myCheckIns, tab, showCelebration,
                   celebrationData, checkInVars,
                   createVars, coachVars, authVars>>

\* onCheckIn without setSelectedGoal: the goal selected last is kept
HomeCheckInKeepingGoal(i) ==
    /\ TabsUsable /\ tab = "home"
    /\ screen' = "checkin"
    /\ checkIn' = FreshCheckInScreen
    /\ TabViewAfter("checkin", tab)
    /\ UNCHANGED <<now, goals, myCheckIns, tab, selectedGoal, showCelebration,
                   celebrationData, photoCalls, fetches, timers,
                   createVars, coachVars, authVars>>

\* HomeScreen onCheckIn: setSelectedGoal(goal); setScreen('checkin')
HomeCheckIn(i) ==
    /\ TabsUsable /\ tab = "home"
    /\ selectedGoal' = goals[i]
    /\ screen' = "checkin"
    /\ checkIn' = FreshCheckInScreen
    /\ TabViewAfter("checkin", tab)
    /\ UNCHANGED <<now, goals, myCheckIns, tab, showCelebration,
                   celebrationData, photoCalls, fetches, timers,
                   createVars, coachVars, authVars>>

\* GoalDetailScreen onBack: setScreen('tabs')
GoalBack ==
    /\ screen = "goal" /\ selectedGoal # NoGoal
    /\ screen' = "tabs"
    /\ TabViewAfter("tabs", tab)
    /\ UNCHANGED <<now, goals, myCheckIns, tab, selectedGoal,
                   showCelebration, celebrationData, checkInVars,
                   createVars, coachVars, authVars>>

\* GoalDetailScreen onAskCoach: setScreen('coach'), which mounts AICoachScreen
AskCoach ==
    /\ screen = "goal" /\ selectedGoal # NoGoal
    /\ screen' = "coach"
    /\ coach' = FreshCoachScreen
    /\ coachFetches' = <<>>
    /\ UNCHANGED <<now, goals, myCheckIns, tab, selectedGoal,
                   showCelebration, celebrationData, homeVars, checkInVars,
                   createVars, feedVars, authVars>>

\* AICoachScreen onBack: setScreen('goal'), which unmounts AICoachScreen: the
\* state setters of its pending request become no-ops
CoachBack ==
    /\ screen = "coach" /\ selectedGoal # NoGoal
    /\ screen' = "goal"
    /\ UnmountCoach
    /\ UNCHANGED <<now, goals, myCheckIns, tab, selectedGoal,
                   showCelebration, celebrationData, homeVars, checkInVars,
                   createVars, feedVars, authVars>>

\* GoalDetailScreen onCheckIn: setScreen('checkin'), selectedGoal is kept
GoalCheckIn ==
    /\ screen = "goal" /\ selectedGoal # NoGoal
    /\ screen' = "checkin"
    /\ checkIn' = FreshCheckInScreen
    /\ UNCHANGED <<now, goals, myCheckIns, tab, selectedGoal, showCelebration,
                   celebrationData, homeVars, photoCalls, fetches, timers,
                   createVars, feedVars, coachVars, authVars>>

\* the Continue button of the celebration modal: setShowCelebration(false)
DismissCelebration ==
    /\ screen = "tabs" /\ CelebrationShown
    /\ showCelebration' = FALSE
    /\ UNCHANGED <<now, goals, myCheckIns, screen, tab, selectedGoal,
                   celebrationData, homeVars, checkInVars,
                   createVars, feedVars, coachVars, authVars>>

----------------------------------------------------------------------------
(* CheckInScreen *)

\* the close button of the capture stage: onBack = setScreen('goal')
CheckInBack ==
    /\ CheckInMounted /\ checkIn.stage = "capture"
    /\ screen' = "goal"
    /\ Unmount
    /\ UNCHANGED <<now, goals, myCheckIns, tab, selectedGoal, showCelebration,
                   celebrationData, homeVars, timers,
                   createVars, feedVars, coachVars, authVars>>

\* takePhoto up to its await: the capture button starts takePictureAsync
TakePhoto ==
    /\ CheckInMounted /\ checkIn.stage = "capture"
    /\ InFlight < MaxInFlight
    /\ photoCalls' = photoCalls + 1
    /\ UNCHANGED <<now, appVars, homeVars, checkIn, fetches, timers,
                   createVars, feedVars, coachVars, authVars>>

\* takePhoto after its await: with a result, setPhoto(result.uri) and
\* setStage('edit')
PhotoTaken(hasResult) ==
    /\ photoCalls > 0
    /\ photoCalls' = photoCalls - 1
    /\ IF hasResult
       THEN checkIn' = [checkIn EXCEPT !.photo = PhotoUri, !.stage = "edit"]
       ELSE UNCHANGED checkIn
    /\ UNCHANGED <<now, appVars, homeVars, fetches, timers,
                   createVars, feedVars, coachVars, authVars>>

\* the Retake button of the edit stage and the Retake Photo button of the
\* failed stage: setPhoto(null); setStage('capture')
Retake ==
    /\ CheckInMounted
    /\ \/ checkIn.stage = "edit" /\ checkIn.photo # NoPhoto
       \/ checkIn.stage = "failed"
    /\ checkIn' = [checkIn EXCEPT !.photo = NoPhoto, !.stage = "capture"]
    /\ UNCHANGED <<now, appVars, homeVars, photoCalls, fetches, timers,
                   createVars, feedVars, coachVars, authVars>>

\* verifyAndSubmit up to its await: the Share button of the edit stage
VerifyAndSubmit ==
    /\ CheckInMounted /\ checkIn.stage = "edit" /\ checkIn.photo # NoPhoto
    /\ InFlight < MaxInFlight
    /\ checkIn' = [checkIn EXCEPT !.stage = "verifying"]
    /\ fetches' = Append(fetches, Closure)
    /\ UNCHANGED <<now, appVars, homeVars, photoCalls, timers,
                   createVars, feedVars, coachVars, authVars>>

\* the ways the verify-checkin request ends
Outcomes == {"verified", "rejected", "notOk", "threw"}

\* the stage verifyAndSubmit sets for an outcome: a non-OK status and a
\* thrown request are accepted like a verified photo
StageFor(outcome) == IF outcome = "rejected" THEN "failed" ELSE "verified"

\* the setTimeout callback of the branch of verifyAndSubmit that the outcome
\* selects: the closure of the request, and the branch that set the timer
TimerOf(closure, outcome) ==
    [photo |-> closure.photo,
     goalId |-> closure.goalId, goals |-> closure.goals, outcome |-> outcome]

\* verifyAndSubmit after its await: setStage acts only while the instance is
\* mounted, setTimeout(onComplete, 1500) is set in any case
VerifyReply(i, outcome) ==
    /\ i \in DOMAIN fetches
    /\ fetches' = RemoveAt(fetches, i)
    /\ IF fetches[i].live
       THEN checkIn' = [checkIn EXCEPT !.stage = StageFor(outcome)]
       ELSE UNCHANGED checkIn
    /\ IF StageFor(outcome) = "verified"
       THEN timers' = Append(timers, TimerOf(fetches[i], outcome))
       ELSE UNCHANGED timers
    /\ UNCHANGED <<now, appVars, homeVars, photoCalls,
                   createVars, feedVars, coachVars, authVars>>

\* what follows handleCheckInComplete in onComplete: setScreen('tabs');
\* setTab('feed'), which unmounts the screen that is shown (CheckInScreen,
\* or the screen the user went to before a late timer fired) and HomeScreen
AfterComplete ==
    /\ screen' = "tabs"
    /\ tab' = "feed"
    /\ Unmount
    /\ UnmountCreate
    /\ UnmountCoach
    /\ TabViewAfter("tabs", "feed")
    /\ UNCHANGED <<now, selectedGoal, authVars>>

\* the 1500 ms timer of verifyAndSubmit fires: onComplete of part_002
TimerFires ==
    /\ timers # <<>>
    /\ Len(myCheckIns) < MaxCheckIns
    /\ HandleCheckInComplete(Head(timers).goalId, Head(timers).goals)
    /\ timers' = Tail(timers)
    /\ AfterComplete

\* the Submit Anyway button of the failed stage: onComplete of part_002
SubmitAnyway ==
    /\ CheckInMounted /\ checkIn.stage = "failed" /\ checkIn.photo # NoPhoto
    /\ Len(myCheckIns) < MaxCheckIns
    /\ HandleCheckInComplete(Closure.goalId, Closure.goals)
    /\ AfterComplete
    /\ UNCHANGED timers

\* the same two callbacks with handleCheckInComplete of App.tsx
TimerFiresTsx ==
    /\ timers # <<>>
    /\ Len(myCheckIns) < MaxCheckIns
    /\ HandleCheckInCompleteTsx(Head(timers).goalId, Head(timers).goals)
    /\ timers' = Tail(timers)
    /\ AfterComplete

SubmitAnywayTsx ==
    /\ CheckInMounted /\ checkIn.stage = "failed" /\ checkIn.photo # NoPhoto
    /\ Len(myCheckIns) < MaxCheckIns
    /\ HandleCheckInCompleteTsx(Closure.goalId, Closure.goals)
    /\ AfterComplete
    /\ UNCHANGED timers

----------------------------------------------------------------------------
(* CreateGoalScreen *)

\* the texts the title input can hold: typed text and an example chip
Titles == {"", " ", " Read ", "Run 5K daily"}

\* the categories the classify-goal service answers with
ServerCategories == {"fitness", "learning"}

\* the response of classify-goal for a category
ServerClassification(category) ==
    [category |-> category, suggested_routine |-> "Start small."]

CreateMounted == screen = "create" /\ create.mounted

\* HomeScreen onAddGoal: setScreen('create')
AddGoal ==
    /\ TabsUsable /\ tab = "home"
    /\ Len(goals) < MaxGoals
    /\ screen' = "create"
    /\ create' = FreshCreateScreen
    /\ classifyFetches' = <<>>
    /\ TabViewAfter("create", tab)
    /\ UNCHANGED <<now, goals, myCheckIns, tab, selectedGoal, showCelebration,
                   celebrationData, checkInVars, coachVars, authVars>>

\* the title input and the example chips of the title step: setTitle
SetTitle(t) ==
    /\ CreateMounted /\ create.step = "title"
    /\ create' = [create EXCEPT !.title = t]
    /\ UNCHANGED <<now, appVars, homeVars, checkInVars, classifyFetches,
                   feedVars, coachVars, authVars>>

\* the options of the frequency step: setFrequency(freq.id)
SetFrequency(f) ==
    /\ CreateMounted /\ create.step = "frequency"
    /\ create' = [create EXCEPT !.frequency = f]
    /\ UNCHANGED <<now, appVars, homeVars, checkInVars, classifyFetches,
                   feedVars, coachVars, authVars>>

\* the options of the reminder step: setReminderTime(time.id)
SetReminderTime(r) ==
    /\ CreateMounted /\ create.step = "reminder"
    /\ create' = [create EXCEPT !.reminderTime = r]
    /\ UNCHANGED <<now, appVars, homeVars, checkInVars, classifyFetches,
                   feedVars, coachVars, authVars>>

\* canProceed of the Next button
CanProceed == create.step = "title" => Len(Trim(create.title)) > 0

\* handleNext up to its await: the Next / Continue button, which is not
\* rendered at the confirm step or while classifying, and is disabled
\* without canProceed
HandleNext ==
    /\ CreateMounted
    /\ create.step # "confirm"
    /\ ~(create.step = "classify" /\ create.isClassifying)
    /\ CanProceed
    /\ ~(create.step = "title" /\ Trim(create.title) = "")
    /\ IF create.step = "reminder"
       THEN /\ Len(classifyFetches) < MaxClassify
            /\ create' = [create EXCEPT !.step = "classify",
                                        !.isClassifying = TRUE]
            /\ classifyFetches' =
                  Append(classifyFetches, [goal_title |-> create.title])
       ELSE /\ StepIndex(create.step) < Len(Steps)
            /\ create' = [create EXCEPT !.step = Steps[StepIndex(create.step) + 1]]
            /\ UNCHANGED classifyFetches
    /\ UNCHANGED <<now, appVars, homeVars, checkInVars, feedVars, coachVars, authVars>>

\* the ways the classify-goal request ends
ClassifyOutcomes == {"ok", "notOk", "threw"}

\* handleNext after its await: setClassification on an OK response and on a
\* thrown request, setIsClassifying(false) in any case
ClassifyReply(i, outcome, category) ==
    /\ i \in DOMAIN classifyFetches
    /\ classifyFetches' = RemoveAt(classifyFetches, i)
    /\ create' =
          [create EXCEPT
             !.classification =
                 CASE outcome = "ok" -> ServerClassification(category)
                   [] outcome = "threw" -> DefaultClassification
                   [] OTHER -> @,
             !.isClassifying = FALSE]
    /\ UNCHANGED <<now, appVars, homeVars, checkInVars, feedVars, coachVars, authVars>>

\* handleBack: the previous step, and onBack = setScreen('tabs') from the
\* first step
HandleBack ==
    /\ CreateMounted
    /\ IF StepIndex(create.step) > 1
       THEN /\ create' = [create EXCEPT !.step = Steps[StepIndex(create.step) - 1]]
            /\ UNCHANGED <<screen, classifyFetches, homeVars, feedVars>>
       ELSE /\ screen' = "tabs"
            /\ UnmountCreate
            /\ TabViewAfter("tabs", tab)
    /\ UNCHANGED <<now, goals, myCheckIns, tab, selectedGoal, showCelebration,
                   celebrationData, checkInVars, coachVars, authVars>>

\* Date.now().toString() of createGoal: two goals are created more than a
\* millisecond apart, so their clock readings differ; the clock of the model
\* is coarser, and the number of goals stands for the milliseconds within
\* one clock value
NewGoalId == ToString(now) \o "." \o ToString(Len(goals))

\* the goal createGoal hands to onGoalCreated with the streak given
NewGoalWithStreak(streak) ==
    [id |-> NewGoalId,
     title |-> Trim(create.title),
     category |-> IF create.classification.category # ""
                  THEN create.classification.category ELSE "general",
     current_streak |-> streak,
     frequency |-> create.frequency,
     description |-> create.classification.suggested_routine,
     checkedToday |-> FALSE,
     lastCheckIn |-> NoTime]

\* createGoal with the streak of a new goal set to -1
NewGoalUnset == NewGoalWithStreak(-1)

\* createGoal with the title as it was typed
NewGoalUntrimmed == [NewGoalWithStreak(0) EXCEPT !.title = create.title]

\* the goal createGoal hands to onGoalCreated
NewGoal == NewGoalWithStreak(0)

\* onGoalCreated with the list replaced by the new goal: setGoals([newGoal])
CreateGoalReplacing ==
    /\ CreateMounted /\ create.step = "confirm"
    /\ goals' = <<NewGoal>>
    /\ selectedGoal' = NewGoal
    /\ screen' = "goal"
    /\ UnmountCreate
    /\ UNCHANGED <<now, myCheckIns, tab, showCelebration, celebrationData,
                   homeVars, checkInVars, feedVars, coachVars, authVars>>

\* the Start My Streak button of the confirm step: createGoal, and
\* onGoalCreated of App: setGoals(prev => [...prev, newGoal]);
\* setSelectedGoal(newGoal); setScreen('goal')
CreateGoal ==
    /\ CreateMounted /\ create.step = "confirm"
    /\ goals' = Append(goals, NewGoal)
    /\ selectedGoal' = NewGoal
    /\ screen' = "goal"
    /\ UnmountCreate
    /\ UNCHANGED <<now, myCheckIns, tab, showCelebration, celebrationData,
                   homeVars, checkInVars, feedVars, coachVars, authVars>>

\* the wizard with every input
Wizard ==
    \/ \E t \in Titles : SetTitle(t)
    \/ \E f \in Frequencies : SetFrequency(f)
    \/ \E r \in ReminderTimes : SetReminderTime(r)
    \/ HandleNext
    \/ \E i \in DOMAIN classifyFetches, o \in ClassifyOutcomes,
          c \in ServerCategories : ClassifyReply(i, o, c)
    \/ HandleBack
    \/ CreateGoal

----------------------------------------------------------------------------
(* AICoachScreen *)

CoachMounted == screen = "coach" /\ selectedGoal # NoGoal /\ coach.mounted

\* the texts the message input can hold
Messages == {"", " ", " Help me ", "Plan my week"}

\* the message input: onChangeText = setMessage
SetMessage(t) ==
    /\ CoachMounted
    /\ t # coach.message
    /\ coach' = [coach EXCEPT !.message = t]
    /\ UNCHANGED <<now, appVars, homeVars, checkInVars, createVars, feedVars,
                   coachFetches, authVars>>

\* sendMessage without the test of isLoading
SendMessageWhileLoading ==
    /\ CoachMounted
    /\ IF Trim(coach.message) = ""
       THEN UNCHANGED coachVars
       ELSE /\ Len(coach.conversation) < MaxMessages
            /\ coach' = [coach EXCEPT
                           !.message = "",
                           !.conversation =
                               Append(@, ChatMessage("user", Trim(coach.message))),
                           !.isLoading = TRUE]
            /\ coachFetches' =
                  Append(coachFetches, [message |-> Trim(coach.message)])
    /\ UNCHANGED <<now, appVars, homeVars, checkInVars, createVars, feedVars, authVars>>

\* sendMessage up to its await, from the Send button or the return key of
\* the input (the key calls it also while the button is disabled)
SendMessage ==
    /\ CoachMounted
    /\ IF Trim(coach.message) = "" \/ coach.isLoading
       THEN UNCHANGED coachVars
       ELSE /\ Len(coach.conversation) < MaxMessages
            /\ coach' = [coach EXCEPT
                           !.message = "",
                           !.conversation =
                               Append(@, ChatMessage("user", Trim(coach.message))),
                           !.isLoading = TRUE]
            /\ coachFetches' =
                  Append(coachFetches, [message |-> Trim(coach.message)])
    /\ UNCHANGED <<now, appVars, homeVars, checkInVars, createVars, feedVars, authVars>>

\* the ways the chat request ends
ChatOutcomes == {"ok", "notOk", "threw"}

\* sendMessage after its await (and after the pauses that show the tools of
\* an agentic answer): the answer on an OK response, the error message of
\* the catch branch otherwise, setIsLoading(false) in any case
CoachReply(i, outcome) ==
    /\ i \in DOMAIN coachFetches
    /\ coachFetches' = RemoveAt(coachFetches, i)
    /\ coach' = [coach EXCEPT
                   !.conversation =
                       Append(@, ChatMessage("assistant",
                                   IF outcome = "ok" THEN "answer" ELSE "error")),
                   !.isLoading = FALSE]
    /\ UNCHANGED <<now, appVars, homeVars, checkInVars, createVars, feedVars, authVars>>

CoachActions ==
    \/ \E t \in Messages : SetMessage(t)
    \/ SendMessage
    \/ \E i \in DOMAIN coachFetches, o \in ChatOutcomes : CoachReply(i, o)

----------------------------------------------------------------------------
(* FeedScreen *)

\* the feed is rendered and nothing covers it
FeedUsable == TabsUsable /\ tab = "feed" /\ feed.mounted

\* the id of a CheckIn record: `checkin-${Date.now()}`
CheckInId(c) == "checkin-" \o ToString(c.id)

\* myPhotosFeed: the user's own check-ins in display format
MyPhotosFeed ==
    [k \in DOMAIN myCheckIns |->
        [id |-> CheckInId(myCheckIns[k]), consistency_rate |-> 100,
         streak |-> myCheckIns[k].streak,
         timestamp |-> myCheckIns[k].timestamp]]

\* the reverse of a sequence
Reversed(s) == [k \in DOMAIN s |-> s[Len(s) + 1 - k]]

\* displayFeed with the list of the server shown last entry first
DisplayFeedReversed ==
    IF feed.activeTab = "photos" THEN MyPhotosFeed ELSE Reversed(feed.feedData)

\* displayFeed = activeTab === 'photos' ? myPhotosFeed : feedData
DisplayFeed ==
    IF feed.activeTab = "photos" THEN MyPhotosFeed ELSE feed.feedData

\* the cards on the screen: skeletons stand in for them while a friends or
\* community feed is loading
RenderedFeed ==
    IF feed.isLoading /\ feed.activeTab # "photos" THEN <<>> ELSE DisplayFeed

RenderedIds == {RenderedFeed[k].id : k \in DOMAIN RenderedFeed}

FeedTabs == {"friends", "community", "photos"}

\* a tab of the feed: setActiveTab(t), and the effect on [activeTab] runs
\* fetchFeed up to its await
SetActiveTab(t) ==
    /\ FeedUsable
    /\ t # feed.activeTab
    /\ Len(feedFetches) < MaxFeedFetches
    /\ feed' = [feed EXCEPT !.activeTab = t, !.isLoading = TRUE]
    /\ feedFetches' = Append(feedFetches, FeedRequest(t))
    /\ UNCHANGED <<now, appVars, homeVars, checkInVars, createVars, coachVars, authVars>>

\* pull to refresh: handleRefresh runs fetchFeed up to its await (the
\* refreshing flag of the RefreshControl is not part of the model)
HandleRefresh ==
    /\ FeedUsable
    /\ Len(feedFetches) < MaxFeedFetches
    /\ feed' = [feed EXCEPT !.isLoading = TRUE]
    /\ feedFetches' = Append(feedFetches, FeedRequest(feed.activeTab))
    /\ UNCHANGED <<now, appVars, homeVars, checkInVars, createVars, coachVars, authVars>>

\* the ways the checkins/feed request ends
FeedOutcomes == {"ok", "notOk", "threw"}

\* fetchFeed after its await: setFeedData(data) on an OK response,
\* setIsLoading(false) in any case
FeedReply(i, outcome, held) ==
    /\ i \in DOMAIN feedFetches
    /\ feedFetches' = RemoveAt(feedFetches, i)
    /\ feed' = [feed EXCEPT
                  !.feedData = IF outcome = "ok"
                               THEN ServerFeed(held, feedFetches[i].friendsOnly)
                               ELSE @,
                  !.isLoading = FALSE]
    /\ UNCHANGED <<now, appVars, homeVars, checkInVars, createVars, coachVars, authVars>>

\* toggleLike with the liked item moved to the top of the feed
ToggleLikeToTop(itemId) ==
    /\ FeedUsable
    /\ itemId \in RenderedIds
    /\ feed' = [feed EXCEPT
                  !.likedItems = IF itemId \in @ THEN @ \ {itemId}
                                 ELSE @ \cup {itemId},
                  !.feedData =
                      SelectSeq(@, LAMBDA x : x.id = itemId)
                      \o SelectSeq(@, LAMBDA x : x.id # itemId)]
    /\ UNCHANGED <<now, appVars, homeVars, checkInVars, createVars,
                   feedFetches, coachVars, authVars>>

\* the like button of a card: toggleLike
ToggleLike(itemId) ==
    /\ FeedUsable
    /\ itemId \in RenderedIds
    /\ feed' = [feed EXCEPT
                  !.likedItems = IF itemId \in @ THEN @ \ {itemId}
                                 ELSE @ \cup {itemId}]
    /\ UNCHANGED <<now, appVars, homeVars, checkInVars, createVars,
                   feedFetches, coachVars, authVars>>

DoubleTapMs == 300

\* lastTap.current[itemId] || 0 is within 300 ms of Date.now(): an item that
\* was not tapped yet has the time 0 of the epoch, which is not
LastTapIsRecent(itemId) ==
    /\ itemId \in DOMAIN feed.lastTap
    /\ now - feed.lastTap[itemId] < DoubleTapMs

\* a tap on the photo of a card: handleDoubleTap
HandleDoubleTap(itemId) ==
    /\ FeedUsable
    /\ itemId \in RenderedIds
    /\ feed' = [feed EXCEPT
                  !.likedItems = IF LastTapIsRecent(itemId)
                                 THEN @ \cup {itemId} ELSE @,
                  !.heartVisible = IF LastTapIsRecent(itemId)
                                   THEN itemId ELSE @,
                  !.lastTap = (itemId :> now) @@ @]
    /\ UNCHANGED <<now, appVars, homeVars, checkInVars, createVars,
                   feedFetches, coachVars, authVars>>

\* HeartAnimation onComplete of the card whose heart is shown:
\* setHeartVisible(null)
HeartAnimationDone ==
    /\ FeedMounted(screen, tab) /\ feed.mounted
    /\ feed.heartVisible \in RenderedIds
    /\ feed' = [feed EXCEPT !.heartVisible = NoItem]
    /\ UNCHANGED <<now, appVars, homeVars, checkInVars, createVars,
                   feedFetches, coachVars, authVars>>

\* the ids of the cards a feed can show
ItemIds == {e.id : e \in FeedPool} \cup {CheckInId(c) : c \in Range(myCheckIns)}

\* the cards whose photo is tapped: the second entry of the server, and the
\* user's own photos
TappedIds == {"b"} \cup {CheckInId(c) : c \in Range(myCheckIns)}

FeedActions ==
    \/ \E t \in FeedTabs : SetActiveTab(t)
    \/ HandleRefresh
    \/ \E i \in DOMAIN feedFetches, o \in FeedOutcomes, held \in ServerStates :
          FeedReply(i, o, held)
    \/ \E id \in ItemIds : ToggleLike(id)
    \/ \E id \in TappedIds : HandleDoubleTap(id)
    \/ HeartAnimationDone

----------------------------------------------------------------------------
(* Specifications *)

Tabs == {"feed", "home", "trophy", "settings"}

\* the tabs of TabBar in App.tsx
TabsTsx == {"feed", "home", "settings"}

\* the screen routing that part_002 and App.tsx share
Navigate ==
    \/ \E i \in DOMAIN goals : GoalPress(i)
    \/ \E i \in DOMAIN goals : HomeCheckIn(i)
    \/ GoalBack
    \/ AskCoach
    \/ CoachBack
    \/ GoalCheckIn

CheckInFlow ==
    \/ CheckInBack
    \/ TakePhoto
    \/ \E r \in BOOLEAN : PhotoTaken(r)
    \/ Retake
    \/ VerifyAndSubmit
    \/ \E i \in DOMAIN fetches, o \in Outcomes : VerifyReply(i, o)

\* the app of src/unnamed/part_002
Next ==
    \/ Tick
    \/ UpdateTimer
    \/ \E t \in Tabs : TabPress(t)
    \/ Navigate
    \/ DismissCelebration
    \/ CheckInFlow
    \/ TimerFires
    \/ SubmitAnyway

Spec == Init /\ [][Next]_vars

\* the app of src/app/App.tsx
NextTsx ==
    \/ Tick
    \/ UpdateTimer
    \/ \E t \in TabsTsx : TabPress(t)
    \/ Navigate
    \/ CheckInFlow
    \/ TimerFiresTsx
    \/ SubmitAnywayTsx

SpecTsx == Init /\ [][NextTsx]_vars

----------------------------------------------------------------------------
(* The timer specification: updateTimer over the times of day *)

\* every whole minute of the days 0..MaxTimerDay, with the first and the
\* last millisecond around it
TimerInputs ==
    {d * MsPerDay + m * MsPerMin + off :
        d \in 0..MaxTimerDay, m \in 0..1439, off \in {0, 1, MsPerMin - 1}}

InitTimer ==
    /\ now \in TimerInputs
    /\ goals = InitialGoals
    /\ InitRest

\* HomeScreen is mounted and unmounted by the tab bar, and its interval runs
NextTimer ==
    \/ \E t \in Tabs : TabPress(t)
    \/ UpdateTimer

SpecTimer == InitTimer /\ [][NextTimer]_vars

----------------------------------------------------------------------------
(* The streak specification: check-ins of one goal over the streak values *)

InitStreak ==
    /\ now = 0
    /\ \E s \in 0..MaxStreak :
          goals = <<Goal("1", "Run 3x per week", "fitness", s)>>
    /\ InitRest

NextStreak ==
    \/ \E t \in {"home", "feed"} : TabPress(t)
    \/ \E i \in DOMAIN goals : HomeCheckIn(i)
    \/ DismissCelebration
    \/ CheckInFlow
    \/ TimerFires
    \/ SubmitAnyway

SpecStreak == InitStreak /\ [][NextStreak]_vars

----------------------------------------------------------------------------
(* The check-in specification: the check-in flow from the home tab, for the
   goals the app starts with, started at the first or the last clock value *)

InitCheckIn ==
    /\ now \in {0, MaxTicks * TickHours * MsPerHour}
    /\ goals = InitialGoals
    /\ InitRest

SpecCheckIn == InitCheckIn /\ [][NextStreak]_vars

----------------------------------------------------------------------------
(* The specification of late callbacks: the check-in flow from the home tab
   for the goals the app starts with, long enough for a request that was
   started before two other check-ins to come back after them *)

\* the 1500 ms timer of verifyAndSubmit fires: onComplete of part_002
TimerFiresLate ==
    /\ timers # <<>>
    /\ Len(myCheckIns) < MaxLateCheckIns
    /\ HandleCheckInComplete(Head(timers).goalId, Head(timers).goals)
    /\ timers' = Tail(timers)
    /\ AfterComplete

\* the Submit Anyway button of the failed stage: onComplete of part_002
SubmitAnywayLate ==
    /\ CheckInMounted /\ checkIn.stage = "failed" /\ checkIn.photo # NoPhoto
    /\ Len(myCheckIns) < MaxLateCheckIns
    /\ HandleCheckInComplete(Closure.goalId, Closure.goals)
    /\ AfterComplete
    /\ UNCHANGED timers

NextLate ==
    \/ \E t \in {"home", "feed"} : TabPress(t)
    \/ \E i \in DOMAIN goals : HomeCheckIn(i)
    \/ DismissCelebration
    \/ CheckInFlow
    \/ TimerFiresLate
    \/ SubmitAnywayLate

SpecLate == Init /\ [][NextLate]_vars

----------------------------------------------------------------------------
(* The wizard specification: goals are created from the home tab *)

NextWizard ==
    \/ \E t \in {"home", "feed"} : TabPress(t)
    \/ AddGoal
    \/ Wizard
    \/ GoalBack

SpecWizard == Init /\ [][NextWizard]_vars

----------------------------------------------------------------------------
(* The creation specification: goals are created and checked in from the home
   tab.  The wizard is walked forward with one title, the frequency it starts
   with and one category of the service; a check-in takes its photo and
   shares it, and the request is answered by a verdict of the service *)

\* the goals checked in: the created ones, and the one the app starts with
\* that is two check-ins away from a tier
CreateCheckIns == {2} \cup {i \in DOMAIN goals : i > Len(InitialGoals)}

NextCreate ==
    \/ TabPress("home")
    \/ AddGoal
    \/ SetTitle(" Read ")
    \/ HandleNext
    \/ \E i \in DOMAIN classifyFetches, o \in ClassifyOutcomes :
          ClassifyReply(i, o, "fitness")
    \/ CreateGoal
    \/ GoalBack
    \/ \E i \in CreateCheckIns : HomeCheckIn(i)
    \/ DismissCelebration
    \/ TakePhoto
    \/ PhotoTaken(TRUE)
    \/ VerifyAndSubmit
    \/ \E i \in DOMAIN fetches, o \in {"verified", "rejected"} :
          VerifyReply(i, o)
    \/ TimerFires
    \/ SubmitAnyway

SpecCreate == Init /\ [][NextCreate]_vars

----------------------------------------------------------------------------
(* The feed specification: the feed tab at the start of the app and after
   the first check-in of the first goal *)

\* the state the 1500 ms timer of the first check-in leaves: goal '1'
\* checked in, its record added, the feed tab shown
InitFeed ==
    /\ now = 0
    /\ \/ /\ goals = InitialGoals
          /\ myCheckIns = <<>>
          /\ selectedGoal = NoGoal
       \/ /\ goals = MarkCheckedIn(InitialGoals, "1", 13)
          /\ myCheckIns = <<NewCheckIn(InitialGoals[1], 13)>>
          /\ selectedGoal = InitialGoals[1]
    /\ screen = "tabs"
    /\ tab = "feed"
    /\ showCelebration = FALSE
    /\ celebrationData = NoCelebration
    /\ isCheckInWindow = FALSE
    /\ timeLeft = NoTimeLeft
    /\ interval = NoTime
    /\ checkIn = NoCheckInScreen
    /\ photoCalls = 0
    /\ fetches = <<>>
    /\ timers = <<>>
    /\ create = NoCreateScreen
    /\ classifyFetches = <<>>
    /\ feed = FreshFeedScreen
    /\ feedFetches = <<FeedRequest(FreshFeedScreen.activeTab)>>
    /\ coach = NoCoachScreen
    /\ coachFetches = <<>>
    /\ isLoading = FALSE
    /\ session = "stored"
    /\ sessionLookup = "settled"

NextFeed ==
    \/ \E t \in {"feed", "home"} : TabPress(t)
    \/ FeedActions

SpecFeed == InitFeed /\ [][NextFeed]_vars

----------------------------------------------------------------------------
(* The classification specification: the wizard is walked forward and back
   with two titles, and the service answers a request with the category of
   the title the request carries *)

\* the category the classify-goal service gives a title
CategoryOf(title) == IF Trim(title) = "Read" THEN "learning" ELSE "fitness"

ClassifiedTitles == {"Run 5K daily", " Read "}

NextClassify ==
    \/ TabPress("home")
    \/ AddGoal
    \/ \E t \in ClassifiedTitles : SetTitle(t)
    \/ HandleNext
    \/ HandleBack
    \/ \E i \in DOMAIN classifyFetches, o \in ClassifyOutcomes :
          ClassifyReply(i, o, CategoryOf(classifyFetches[i].goal_title))
    \/ CreateGoal
    \/ GoalBack

SpecClassify == Init /\ [][NextClassify]_vars

----------------------------------------------------------------------------
(* The coach specification: the coach of the first and of the second goal is
   opened from the goal screen and asked *)

NextCoach ==
    \/ TabPress("home")
    \/ \E i \in {1, 2} : GoalPress(i)
    \/ GoalBack
    \/ AskCoach
    \/ CoachBack
    \/ CoachActions

SpecCoach == Init /\ [][NextCoach]_vars

----------------------------------------------------------------------------
(* The selection specification: the screens of the first two goals are
   opened from the home tab and from each other, and check-ins are made from
   the home card and from the goal screen *)

NextSelect ==
    \/ TabPress("home")
    \/ \E i \in {1, 2} : GoalPress(i)
    \/ \E i \in {1, 2} : HomeCheckIn(i)
    \/ GoalBack
    \/ AskCoach
    \/ CoachBack
    \/ GoalCheckIn
    \/ DismissCelebration
    \/ CheckInFlow
    \/ TimerFires
    \/ SubmitAnyway

SpecSelect == Init /\ [][NextSelect]_vars

----------------------------------------------------------------------------
(* App startup: the session lookup, the auth state listener and the two
   gates of the render *)

\* useState<Session | null>(null)
NoSession == "null"

\* the sessions the auth provider hands out: the one it has stored, and one
\* it issues later (sign-in, token refresh)
Sessions == {"stored", "refreshed"}

\* App renders its screens only past the loading gate (if (isLoading) return
\* the spinner) and the auth gate (if (!session) return AuthScreen)
AppShown == ~isLoading /\ session # NoSession

\* the components of the tab view across a change of isLoading and session
\* to l and s: the first render past both gates mounts the tab view
ShowAfter(l, s) ==
    IF ~l /\ s # NoSession /\ ~AppShown
    THEN /\ IF FeedMounted(screen, tab)
            THEN /\ feed' = FreshFeedScreen
                 /\ feedFetches' = <<FeedRequest(FreshFeedScreen.activeTab)>>
            ELSE UNCHANGED feedVars
         /\ IF HomeMounted(screen, tab)
            THEN /\ UpdateTimerAt(now)
                 /\ interval' = now + IntervalMs
            ELSE UNCHANGED homeVars
    ELSE UNCHANGED <<feedVars, homeVars>>

\* the ways the promise of supabase.auth.getSession() settles: fulfilled with
\* the stored session, fulfilled with data.session null (nothing stored, or
\* an error reported in the result), or rejected
LookupOutcomes == {"session", "noSession", "rejected"}

\* supabase.auth.getSession().then(({ data: { session } }) => {
\*   setSession(session); setIsLoading(false); })
\* the promise has no rejection handler
GetSessionSettles(outcome) ==
    /\ sessionLookup = "pending"
    /\ sessionLookup' = "settled"
    /\ IF outcome = "rejected"
       THEN /\ UNCHANGED <<isLoading, session>>
            /\ ShowAfter(isLoading, session)
       ELSE /\ session' = IF outcome = "session" THEN "stored" ELSE NoSession
            /\ isLoading' = FALSE
            /\ ShowAfter(FALSE, session')
    /\ UNCHANGED <<now, appVars, checkInVars, createVars, coachVars>>

\* onAuthStateChange((_event, session) => { setSession(session); })
\* an event without a session is taken while no screen of the app is shown
AuthStateChange(s) ==
    /\ s = NoSession => ~AppShown
    /\ session' = s
    /\ ShowAfter(isLoading, s)
    /\ UNCHANGED <<now, appVars, checkInVars, createVars, coachVars,
                   isLoading, sessionLookup>>

----------------------------------------------------------------------------
(* The startup specification: App is constructed, the session lookup is
   pending and the listener is subscribed; past the gates the coach of the
   first and of the second goal is opened and asked *)

\* the state after the first render of App and its mount effect
InitStartup ==
    /\ now = 0
    /\ goals = InitialGoals
    /\ myCheckIns = <<>>
    /\ screen = "tabs"
    /\ tab = "feed"
    /\ selectedGoal = NoGoal
    /\ showCelebration = FALSE
    /\ celebrationData = NoCelebration
    /\ isCheckInWindow = FALSE
    /\ timeLeft = NoTimeLeft
    /\ interval = NoTime
    /\ checkIn = NoCheckInScreen
    /\ photoCalls = 0
    /\ fetches = <<>>
    /\ timers = <<>>
    /\ create = NoCreateScreen
    /\ classifyFetches = <<>>
    /\ feed = NoFeedScreen
    /\ feedFetches = <<>>
    /\ coach = NoCoachScreen
    /\ coachFetches = <<>>
    /\ isLoading = TRUE
    /\ session = NoSession
    /\ sessionLookup = "pending"

NextStartup ==
    \/ \E o \in LookupOutcomes : GetSessionSettles(o)
    \/ \E s \in Sessions \cup {NoSession} : AuthStateChange(s)
    \/ AppShown /\ TabPress("home")
    \/ AppShown /\ \E i \in {1, 2} : GoalPress(i)
    \/ AppShown /\ GoalBack
    \/ AppShown /\ AskCoach
    \/ AppShown /\ CoachBack
    \/ AppShown /\ CoachActions

\* the promise of getSession() settles
FairStartup == WF_vars(\E o \in LookupOutcomes : GetSessionSettles(o))

SpecStartup == InitStartup /\ [][NextStartup]_vars /\ FairStartup

----------------------------------------------------------------------------
(* The interval specification: the clock runs in steps of seconds around the
   two boundaries of the window, HomeScreen is mounted and unmounted by the
   tab bar and by the goal screen, and the interval timer fires when it is
   due: time does not pass a due timer *)

StepMs == StepSeconds * 1000
IntervalSpan == MaxIntervalSteps * StepMs

\* 08:00 and 22:00 of day 0
Boundaries == {WindowStartHour * MsPerHour, WindowEndHour * MsPerHour}

InitInterval ==
    /\ now \in {b - IntervalSpan + off : b \in Boundaries, off \in {0, 1, StepMs - 1}}
    /\ goals = InitialGoals
    /\ InitRest

\* the callback of setInterval runs at the time it is due
IntervalFires ==
    /\ now = interval
    /\ UpdateTimer

\* time passes up to the next clock step, or up to the time the timer is due
Advance ==
    LET step == now + StepMs
        to == IF interval # NoTime /\ interval < step THEN interval ELSE step
    IN  /\ interval # NoTime => now < interval
        /\ \E b \in Boundaries :
              b - IntervalSpan <= now /\ to <= b + IntervalSpan
        /\ now' = to
        /\ UNCHANGED <<appVars, homeVars, checkInVars, createVars, feedVars, coachVars, authVars>>

NextInterval ==
    \/ \E t \in {"home", "feed"} : TabPress(t)
    \/ GoalPress(1)
    \/ GoalBack
    \/ IntervalFires
    \/ Advance

SpecInterval == InitInterval /\ [][NextInterval]_vars

----------------------------------------------------------------------------
(* The verification specification: the check-in screen is visited until a
   check-in completes, with what the runtime guarantees: a camera call and a
   request that were started end, and a timer that was set fires *)

\* the check-in button of a home card, before the first check-in and while
\* nothing of an earlier visit is left
FirstCheckIn(i) ==
    /\ myCheckIns = <<>>
    /\ InFlight = 0
    /\ HomeCheckIn(i)

NextVerify ==
    \/ TabPress("home")
    \/ \E i \in {1, 2} : FirstCheckIn(i)
    \/ GoalBack
    \/ GoalCheckIn
    \/ CheckInFlow
    \/ TimerFires
    \/ SubmitAnyway

\* a pending call of the camera, a pending request and a pending timer
FairVerify ==
    /\ WF_vars(\E r \in BOOLEAN : PhotoTaken(r))
    /\ WF_vars(\E i \in DOMAIN fetches, o \in Outcomes : VerifyReply(i, o))
    /\ WF_vars(TimerFires)

SpecVerify == Init /\ [][NextVerify]_vars /\ FairVerify

----------------------------------------------------------------------------
(* Vocabulary of the properties *)

\* time of day of t, in ms
TimeOfDay(t) == t % MsPerDay

\* the half-open window [08:00, 22:00) on the time of day
InWindow(t) == 8 * MsPerHour <= TimeOfDay(t) /\ TimeOfDay(t) < 22 * MsPerHour

\* this step ran handleCheckInComplete past its lookup: a record was added
Completed == Len(myCheckIns') = Len(myCheckIns) + 1

\* the goal the record added by this step belongs to
CompletedGoal == FindGoal(goals, Head(myCheckIns').goalId)

\* the goal of a closure as the closure's render saw it
ClosureGoal(c) == c.goals[FindGoal(c.goals, c.goalId)]

\* goal i has a CheckIn record on calendar day d
HasCheckInOn(i, d) ==
    \E k \in DOMAIN myCheckIns :
        myCheckIns[k].goalId = goals[i].id /\ DayOf(myCheckIns[k].timestamp) = d

\* the number of consecutive days with a record of goal i that ends at day d
RunEndingAt(i, d) ==
    IF d < 0 THEN 0
    ELSE CHOOSE n \in 0..(d + 1) :
            /\ \A k \in 0..(n - 1) : HasCheckInOn(i, d - k)
            /\ n = d + 1 \/ ~HasCheckInOn(i, d - n)

\* the consecutive daily records of goal i ending today, or yesterday when
\* there is no record of today
ConsecutiveDays(i) ==
    IF HasCheckInOn(i, DayOf(now))
    THEN RunEndingAt(i, DayOf(now))
    ELSE RunEndingAt(i, DayOf(now) - 1)

----------------------------------------------------------------------------
(* Properties *)

\* C1: when a check-in completes for goal g from a render that saw g as it
\* is now (no other completion for g came in between), g.current_streak
\* becomes its previous value plus exactly 1, g.checkedToday becomes true and
\* g.lastCheckIn is set to the current time.
C1_CheckInEffect ==
    [][\A i \in DOMAIN goals :
          ( \/ TimerFires /\ Head(timers).goalId = goals[i].id
                          /\ ClosureGoal(Head(timers)) = goals[i]
            \/ SubmitAnyway /\ selectedGoal.id = goals[i].id )
          => /\ goals'[i].current_streak = goals[i].current_streak + 1
             /\ goals'[i].checkedToday = TRUE
             /\ goals'[i].lastCheckIn = now]_vars

C1_Witness ==
    \E i \in DOMAIN goals :
        /\ Len(myCheckIns) = 1
        /\ myCheckIns[1].goalId = goals[i].id
        /\ goals[i].current_streak = InitialGoals[i].current_streak + 1
        /\ goals[i].checkedToday
        /\ goals[i].lastCheckIn = now

\* C2: a goal that already has a check-in on the current calendar day does
\* not get its current_streak incremented again, so the streak of a goal
\* increases at most once per day.
C2_OncePerDay ==
    [][\A i \in DOMAIN goals :
          (goals[i].lastCheckIn # NoTime
             /\ DayOf(goals[i].lastCheckIn) = DayOf(now))
          => goals'[i].current_streak <= goals[i].current_streak]_vars

\* C3: in src/app/App.tsx, a completion for goal g that was started while g
\* was not yet checked in leaves current_streak exactly 1 above the value it
\* was started with, also when another completion started in the same state
\* came first: two such completions never both increment the streak.
C3_NoDoubleIncrement ==
    [][(TimerFiresTsx /\ ~ClosureGoal(Head(timers)).checkedToday)
          => goals'[FindGoal(goals, Head(timers).goalId)].current_streak
               = ClosureGoal(Head(timers)).current_streak + 1]_vars

\* C4: a check-in emits a celebration if and only if the new streak is one of
\* 7, 21, 30, 50, 100, and the celebration carries that tier with the tier's
\* entry of the static table; for every other new streak, and in every step
\* that is not a check-in, nothing is emitted; and the tier that was
\* celebrated last is above the streak the goal started with.
C4_MilestoneIffTier ==
    /\ [][IF Completed
          THEN LET newStreak == goals'[CompletedGoal].current_streak
               IN  IF newStreak \in {7, 21, 30, 50, 100}
                   THEN /\ showCelebration'
                        /\ celebrationData' =
                              [milestone |-> newStreak,
                               emoji |-> Milestones[newStreak].emoji,
                               title |-> Milestones[newStreak].title]
                   ELSE UNCHANGED <<showCelebration, celebrationData>>
          ELSE /\ celebrationData' = celebrationData
               /\ showCelebration' => showCelebration]_vars
    /\ [](celebrationData # NoCelebration
            => /\ myCheckIns # <<>>
               /\ celebrationData.milestone
                    >= myCheckIns[Len(myCheckIns)].streak)

C4_Witness ==
    /\ showCelebration
    /\ celebrationData.milestone = 21
    /\ celebrationData.title = "21-Day Habit!"
    /\ goals[1].current_streak = 21
    /\ Len(myCheckIns) = 1

\* C5: in every reachable state, each goal's current_streak equals the number
\* of consecutive daily CheckIn records of that goal ending at today (or at
\* yesterday when there is no check-in of today yet).
C5_StreakMatchesRecords ==
    \A i \in DOMAIN goals : goals[i].current_streak = ConsecutiveDays(i)

\* C6: a goal's streak is incremented only by the completion of a check-in
\* whose verification request returned verified = true.
C6_OnlyVerified ==
    [][(\E i \in DOMAIN goals :
            goals'[i].current_streak > goals[i].current_streak)
          => /\ timers # <<>>
             /\ timers' = Tail(timers)
             /\ Head(timers).outcome = "verified"]_vars

\* C7: no step taken while the local time is outside [08:00, 22:00) changes
\* the streak of a goal.
C7_OnlyInWindow ==
    [][(\E i \in DOMAIN goals :
            goals'[i].current_streak # goals[i].current_streak)
          => InWindow(now)]_vars

\* C8: once updateTimer has run at the current time, the window flag is true
\* exactly when the local time of day is in [08:00, 22:00): true at 08:00:00
\* and until 22:00:00, false at 22:00:00, after it and before 08:00:00.
C8_WindowHalfOpen ==
    timeLeft # NoTimeLeft => (isCheckInWindow <=> InWindow(now))

C8_Witness ==
    /\ timeLeft # NoTimeLeft
    /\ TimeOfDay(now) = 8 * MsPerHour
    /\ isCheckInWindow

\* the time from t to the end of the window when it is open, and to the next
\* 08:00 when it is closed
Remaining(t) ==
    IF InWindow(t) THEN 22 * MsPerHour - TimeOfDay(t)
    ELSE IF TimeOfDay(t) >= 22 * MsPerHour
         THEN (MsPerDay - TimeOfDay(t)) + 8 * MsPerHour
         ELSE 8 * MsPerHour - TimeOfDay(t)

C10_PercentInRange ==
    HomeMounted(screen, tab)
    => \A i \in DOMAIN goals :
          /\ ~MilestoneProgress(goals[i].current_streak).nan
          /\ MilestoneProgress(goals[i].current_streak).value \in 0..100

\* the tiers of the home-card progress, and the tiers that a streak has
\* reached and has not reached
ProgressTiers == {7, 21, 30, 100}
TiersReached(s) == {m \in ProgressTiers : m <= s}
TiersAhead(s) == {m \in ProgressTiers : m > s}

\* p is the integer nearest to num / den (den > 0)
IsNearest(p, num, den) ==
    /\ 2 * (num - p * den) <= den
    /\ 2 * (p * den - num) <= den

\* C11: for every streak s with 0 <= s < 100 the progress of the home card
\* has prevTier = the largest of 7, 21, 30, 100 that is <= s (0 when there is
\* none), nextTier = the smallest of them that is > s, and percent = the
\* rounded value of 100 * (s - prevTier) / (nextTier - prevTier); s = 0 gives
\* (0, 7, 0) and s = 7 gives (7, 21, 0).
C11_ProgressBelowHundred ==
    HomeMounted(screen, tab)
    => \A i \in DOMAIN goals :
          LET s == goals[i].current_streak
              prev == PrevMilestone(s)
              next == NextMilestone(s)
              percent == MilestoneProgress(s)
          IN  (0 <= s /\ s < 100)
              => /\ IF TiersReached(s) = {} THEN prev = 0
                    ELSE prev \in TiersReached(s)
                         /\ \A m \in TiersReached(s) : m <= prev
                 /\ next \in TiersAhead(s)
                 /\ \A m \in TiersAhead(s) : next <= m
                 /\ ~percent.nan
                 /\ IsNearest(percent.value, 100 * (s - prev), next - prev)
                 /\ s = 0 => (prev = 0 /\ next = 7 /\ percent = Num(0))
                 /\ s = 7 => (prev = 7 /\ next = 21 /\ percent = Num(0))

\* the home card of a goal whose check-in has just taken the streak to the
\* tier 7: the progress starts again at 0 for the tier 21
C11_Witness ==
    /\ HomeMounted(screen, tab)
    /\ Len(myCheckIns) = 1
    /\ goals[1].current_streak = 7
    /\ PrevMilestone(7) = 7
    /\ NextMilestone(7) = 21
    /\ MilestoneProgress(goals[1].current_streak) = Num(0)

\* C12: for every streak s >= 100, s = 100 included, the progress of the home
\* card has nextTier = 100 and percent = 100.
C12_HundredPercent ==
    HomeMounted(screen, tab)
    => \A i \in DOMAIN goals :
          goals[i].current_streak >= 100
          => /\ NextMilestone(goals[i].current_streak) = 100
             /\ MilestoneProgress(goals[i].current_streak) = Num(100)

\* C13: current_streak of a goal never decreases from one state to the next,
\* also when a completion callback fires late or more than once.
C13_StreakNeverDecreases ==
    [][\A i \in DOMAIN goals :
          goals'[i].current_streak >= goals[i].current_streak]_vars

\* the number of whole calendar days between the day of t and today
DaysSince(t) == DayOf(now) - DayOf(t)

\* C14: when more than one full calendar day has passed since the last
\* check-in of a goal, the next check-in that completes for it sets
\* current_streak to 1 instead of incrementing it.
C14_ResetAfterMissedDay ==
    [][\A i \in DOMAIN goals :
          ( /\ Completed
            /\ CompletedGoal = i
            /\ goals[i].lastCheckIn # NoTime
            /\ DaysSince(goals[i].lastCheckIn) > 1 )
          => goals'[i].current_streak = 1]_vars

\* C15: in every reachable state checkedToday of a goal is true only if its
\* lastCheckIn falls within the current calendar day.
C15_CheckedTodayIsToday ==
    \A i \in DOMAIN goals :
        goals[i].checkedToday
        => /\ goals[i].lastCheckIn # NoTime
           /\ DayOf(goals[i].lastCheckIn) = DayOf(now)

\* the goals the creation wizard has added
CreatedGoals == {i \in DOMAIN goals : i > Len(InitialGoals)}

\* C16: current_streak of every goal is a non-negative integer in every
\* reachable state, after any sequence of goal creations and check-in
\* completions.
C16_StreakNonNegative ==
    \A i \in DOMAIN goals :
        goals[i].current_streak \in Nat

\* a created goal has been checked in
C16_Witness ==
    /\ CreatedGoals # {}
    /\ \E i \in CreatedGoals :
          /\ goals[i].current_streak = 1
          /\ \E k \in DOMAIN myCheckIns : myCheckIns[k].goalId = goals[i].id

\* goal g of this state is in the next state, with the same identity
KeptAs(g, h) ==
    /\ h.id = g.id
    /\ h.title = g.title
    /\ h.category = g.category
    /\ h.frequency = g.frequency

\* C19: no step removes a goal from the goals list or changes the id, title,
\* category or frequency of a goal, and a goal changes only in a step that
\* completes a check-in for it, which leaves every other goal unchanged.
C19_GoalsFrame ==
    [][/\ Len(goals') >= Len(goals)
       /\ \A i \in DOMAIN goals :
             /\ \E j \in DOMAIN goals' : KeptAs(goals[i], goals'[j])
             /\ KeptAs(goals[i], goals'[i])
             /\ goals'[i] # goals[i]
                => /\ Completed
                   /\ Head(myCheckIns').goalId = goals[i].id]_vars

\* a check-in of a goal the app started with has completed after a goal was
\* created: only that goal has changed
C19_Witness ==
    /\ CreatedGoals # {}
    /\ myCheckIns # <<>>
    /\ Head(myCheckIns).goalId = "2"
    /\ goals[2].current_streak = 6
    /\ goals[2].lastCheckIn = now
    /\ \A i \in CreatedGoals : goals[i].current_streak = 0
    /\ goals[1] = InitialGoals[1]
    /\ goals[3] = InitialGoals[3]

\* a text without a blank at either end
IsTrimmed(t) ==
    t = "" \/ (Head(t) # " " /\ SubSeq(t, Len(t), Len(t)) # " ")

\* C20: the wizard is at a step other than 'title' only while the trimmed
\* title is non-empty, a goal is added only from the 'confirm' step, and the
\* goal added has a non-empty trimmed title, current_streak 0 and a frequency
\* from daily, 3x-week, weekdays, weekly.
C20_WizardCreatesValidGoal ==
    /\ [](create.mounted /\ create.step # "title"
            => \E k \in 1..Len(create.title) :
                  SubSeq(create.title, k, k) # " ")
    /\ [][Len(goals') # Len(goals)
          => /\ Len(goals') = Len(goals) + 1
             /\ CreateMounted /\ create.step = "confirm"
             /\ LET g == goals'[Len(goals')]
                IN  /\ g.title # ""
                    /\ IsTrimmed(g.title)
                    /\ g.current_streak = 0
                    /\ g.frequency \in {"daily", "3x-week", "weekdays", "weekly"}]_vars

\* the wizard has added a goal from a title typed with blanks around it and
\* a frequency chosen at the frequency step
C20_Witness ==
    /\ Len(goals) = Len(InitialGoals) + 1
    /\ goals[4].title = "Read"
    /\ goals[4].frequency = "3x-week"
    /\ goals[4].current_streak = 0
    /\ selectedGoal = goals[4]
    /\ screen = "goal"

\* entry x may stand before entry y in the ranking: a higher consistency
\* rate, or the same rate and a higher streak, or the same rate and streak and
\* a timestamp that is not older
MayPrecede(x, y) ==
    LET key(e) == <<e.consistency_rate, e.streak, e.timestamp>>
        first == CHOOSE k \in 1..4 :
                    /\ \A n \in 1..(k - 1) : key(x)[n] = key(y)[n]
                    /\ k = 4 \/ key(x)[k] # key(y)[k]
    IN  first = 4 \/ key(x)[first] > key(y)[first]

LikeStep ==
    \/ \E id \in ItemIds : ToggleLike(id)
    \/ \E id \in ItemIds : HandleDoubleTap(id)

\* C18: liking or unliking an item, by the like button or by a double tap,
\* leaves the order and the membership of the displayed feed unchanged: of the
\* data of the feed it changes only the set of liked item ids (next to the
\* heart animation and the tap times of the cards), and nothing of the app.
C18_LikesKeepOrder ==
    [][LikeStep
       => /\ DisplayFeed' = DisplayFeed
          /\ RenderedFeed' = RenderedFeed
          /\ feed'.feedData = feed.feedData
          /\ feed'.activeTab = feed.activeTab
          /\ feed'.isLoading = feed.isLoading
          /\ feed'.mounted = feed.mounted
          /\ UNCHANGED <<feedFetches, appVars>>]_vars

\* two cards of a shown feed are liked, one by the button and one by a
\* double tap, and the feed is as the server sent it
C18_Witness ==
    /\ feed.mounted
    /\ ~feed.isLoading
    /\ feed.activeTab = "friends"
    /\ feed.likedItems = {"a", "b"}
    /\ feed.heartVisible = "b"
    /\ [k \in DOMAIN RenderedFeed |-> RenderedFeed[k].id] = <<"a", "b", "d">>

\* C21: every CheckIn record added to myCheckIns carries as its streak the
\* current_streak its goal has right after the step that added the record,
\* and the goalId of every record is the id of a goal of the goals list.
C21_RecordCarriesNewStreak ==
    /\ [][Completed
          => /\ CompletedGoal # 0
             /\ Head(myCheckIns').streak
                  = goals'[CompletedGoal].current_streak
             /\ Tail(myCheckIns') = myCheckIns]_vars
    /\ [](\A k \in DOMAIN myCheckIns :
             FindGoal(goals, myCheckIns[k].goalId) # 0)

\* a completion started before two other check-ins of goal '1' has come in
\* after them: its record and the goal both hold the streak it computed
C21_Witness ==
    /\ Len(myCheckIns) = 3
    /\ \A k \in 1..3 : myCheckIns[k].goalId = "1"
    /\ myCheckIns[1].streak = 13
    /\ myCheckIns[2].streak = 14
    /\ goals[1].current_streak = 13

\* the time since the window state last changed: since 08:00 or 22:00
SinceBoundary(t) ==
    IF TimeOfDay(t) >= 22 * MsPerHour THEN TimeOfDay(t) - 22 * MsPerHour
    ELSE IF TimeOfDay(t) >= 8 * MsPerHour THEN TimeOfDay(t) - 8 * MsPerHour
    ELSE TimeOfDay(t) + 2 * MsPerHour

StartStreak(i) ==
    IF i \in DOMAIN InitialGoals THEN InitialGoals[i].current_streak ELSE 0

\* the number of CheckIn records of goal i
RecordsOf(i) ==
    Cardinality({k \in DOMAIN myCheckIns : myCheckIns[k].goalId = goals[i].id})

\* C23: in every reachable state and for every goal, current_streak minus
\* the streak the goal had at startup or creation equals the number of
\* CheckIn records of the goal: every recorded check-in is exactly one
\* increment, also when a completion callback fires more than once.
C23_OneIncrementPerRecord ==
    \A i \in DOMAIN goals :
        goals[i].current_streak - StartStreak(i) = RecordsOf(i)

\* the stage changes of the check-in screen
StageSteps ==
    { <<"capture", "edit">>, <<"edit", "capture">>, <<"edit", "verifying">>,
      <<"verifying", "verified">>, <<"verifying", "failed">>,
      <<"failed", "capture">> }

\* C24: the stage of a check-in screen changes only along capture -> edit,
\* edit -> capture, edit -> verifying, verifying -> verified,
\* verifying -> failed and failed -> capture, whatever the interleaving of
\* taps and pending camera or network callbacks: verifying is left only for
\* an outcome and verified is never left.
C24_StageOrder ==
    [][(checkIn.mounted /\ checkIn'.mounted /\ checkIn'.stage # checkIn.stage)
          => <<checkIn.stage, checkIn'.stage>> \in StageSteps]_vars

\* C25: once verifyAndSubmit has set the stage of the check-in screen to
\* verifying, the stage of that screen eventually becomes verified or failed,
\* whatever the outcome of the request; and whenever the stage is verified,
\* the completion callback is eventually invoked and adds its record.
C25_VerificationEnds ==
    /\ (checkIn.mounted /\ checkIn.stage = "verifying")
          ~> (checkIn.mounted /\ checkIn.stage \in {"verified", "failed"})
    /\ \A n \in 0..MaxCheckIns :
          (checkIn.mounted /\ checkIn.stage = "verified" /\ Len(myCheckIns) = n)
             ~> (Len(myCheckIns) > n)

\* this step is the end of the request i of the feed
FeedReplyOf(i) ==
    \E o \in FeedOutcomes, held \in ServerStates : FeedReply(i, o, held)

\* C26: while the Friends or the Community tab is active, the end of a
\* request that was issued for another tab changes neither the feed data
\* shown nor the loading flag: the feed shown is the response to a request of
\* the active tab, and the flag stays true until such a request has ended.
C26_FeedOfActiveTab ==
    [][\A i \in DOMAIN feedFetches :
          ( /\ FeedReplyOf(i)
            /\ feed.activeTab \in {"friends", "community"}
            /\ feedFetches[i].tab # feed.activeTab )
          => /\ feed'.feedData = feed.feedData
             /\ feed'.isLoading = feed.isLoading]_vars

\* C27: the category and the description of a goal the wizard creates are
\* those of the classification of the title the goal is created with (the
\* answer of the service for that title, or the default set when its request
\* threw), or 'general' and '' when no classification is held: the answer to
\* a request for another title is never used.
C27_ClassificationOfFinalTitle ==
    [][Len(goals') = Len(goals) + 1
          => LET g == goals'[Len(goals')]
                 held == create.classification
             IN  IF held = NoClassification
                 THEN g.category = "general" /\ g.description = ""
                 ELSE /\ held \in {ServerClassification(CategoryOf(create.title)),
                                   DefaultClassification}
                      /\ g.category = held.category
                      /\ g.description = held.suggested_routine]_vars

\* C28: the roles of the coach conversation alternate, starting with the
\* greeting of the assistant; at most one request is in flight, and one is in
\* flight exactly while the last message is a user message; sendMessage
\* changes nothing for an empty message or while a request is in flight; and
\* a message is appended only after a message of the other role.
C28_RolesAlternate ==
    /\ [](coach.mounted
            => /\ coach.conversation # <<>>
               /\ \A k \in DOMAIN coach.conversation :
                     coach.conversation[k].role =
                        IF k % 2 = 1 THEN "assistant" ELSE "user"
               /\ Len(coachFetches) <= 1
               /\ coach.isLoading <=> Len(coachFetches) = 1
               /\ coach.isLoading
                  <=> coach.conversation[Len(coach.conversation)].role = "user")
    /\ [][(SendMessage /\ (Trim(coach.message) = "" \/ coach.isLoading))
          => UNCHANGED <<coach, coachFetches>>]_vars
    /\ [][(coach.mounted /\ coach'.mounted
            /\ coach'.conversation # coach.conversation)
          => /\ Len(coach'.conversation) = Len(coach.conversation) + 1
             /\ SubSeq(coach'.conversation, 1, Len(coach.conversation))
                  = coach.conversation]_vars

\* two questions were asked: the first was answered, the second ended in the
\* error message
C28_Witness ==
    /\ coach.mounted
    /\ ~coach.isLoading
    /\ coachFetches = <<>>
    /\ [k \in DOMAIN coach.conversation |-> coach.conversation[k].role]
         = <<"assistant", "user", "assistant", "user", "assistant">>
    /\ coach.conversation[2].content = "Help me"
    /\ coach.conversation[3].content = "answer"
    /\ coach.conversation[5].content = "error"

\* C29: whenever screen is 'goal', 'coach' or 'checkin', selectedGoal is not
\* null and its id is the id of a goal of the goals list; and in every step
\* that enters the check-in screen, current_streak of selectedGoal equals
\* current_streak of that goal in the goals list.
C29_SelectedGoalExists ==
    /\ [](screen \in {"goal", "coach", "checkin"}
            => /\ selectedGoal # NoGoal
               /\ FindGoal(goals, selectedGoal.id) # 0)
    /\ [][(screen # "checkin" /\ screen' = "checkin")
          => /\ FindGoal(goals', selectedGoal'.id) # 0
             /\ selectedGoal'.current_streak
                  = goals'[FindGoal(goals', selectedGoal'.id)].current_streak]_vars

\* the check-in screen of goal '1' is open again after a check-in of that
\* goal has completed: the selected goal has the streak of the list
C29_Witness ==
    /\ screen = "checkin"
    /\ checkIn.mounted
    /\ selectedGoal.id = "1"
    /\ Len(myCheckIns) = 1
    /\ myCheckIns[1].goalId = "1"
    /\ goals[1].current_streak = 13
    /\ selectedGoal.current_streak = 13

\* C30: the startup loading state always ends: isLoading of App eventually
\* becomes false, whether the session lookup is fulfilled with a session,
\* fulfilled without one or fails, and whether or not an auth state change
\* arrives before it settles.
C30_LoadingEnds == <>(~isLoading)

====
